---- MODULE Spec2Model ----
(***************************************************************************)
(* Visual target resolution engine of browsergeist                         *)
(* (src/src/vision/template_matcher.py): the template cache (VisionCache)  *)
(* run one call at a time and from concurrent threads, the matchers of     *)
(* TemplateMatcher (correlation, multi-scale, feature, preprocessing),     *)
(* find_template with its strategy selection, the fallback cascade         *)
(* (find_template_with_fallbacks), find_text, and a session of HumanMouse  *)
(* or AsyncHumanMouse with its cache.                                      *)
(*                                                                         *)
(* A Python dict is a sequence of [k, v] records in insertion order: the   *)
(* order is what min() over the keys sees.  Confidences and thresholds are *)
(* integers in units of 1/1000.                                            *)
(***************************************************************************)
EXTENDS Integers, Sequences, FiniteSets, TLC

VARIABLES
    \* VisionCache
    cache,          \* self.cache: path -> decoded template (an object id)
    access_times,   \* self.access_times: path -> time of last access
    max_size,       \* self.max_size
    ttl,            \* self.ttl
    clock,          \* the last reading of time.time()
    loads,          \* number of cv2.imread decodes so far (the next object id)
    last,           \* what the last cache call did, as its caller saw it
    \* get_template called from several threads at once
    th,             \* per thread: the line it is at and its local variables
    \* TemplateMatcher: one resolution call
    confidence,     \* the caller's threshold
    template_ok,    \* the template argument is an image array (not, say, a path)
    shape,          \* width and height of the template and of the frame
    corr,           \* what the three correlation formulas give on this frame and
                    \* template, once computed (the same at stage 3 and stage 5)
    pc,             \* where the call is
    trace,          \* the matcher calls made so far, with what each returned
    result,         \* what the call returned
    error,          \* the exception that left the call
    \* TemplateMatcher.find_text: one text resolution
    target_text,    \* the text looked for
    fuzzy_threshold,\* the similarity a token must reach
    ocr,            \* whether pytesseract is there and works
    data,           \* the tokens pytesseract.image_to_data gives, in scan order
    \* TemplateMatcher.find_template: the strategy selection of the call
    method,         \* the method argument
    multi_scale     \* the multi_scale argument

cacheVars == <<cache, access_times, max_size, ttl, clock, loads, last>>

matchVars == <<confidence, template_ok, shape, corr, pc, trace, result, error>>

textVars == <<target_text, fuzzy_threshold, ocr, data>>

callVars == <<method, multi_scale>>

vars == <<cacheVars, th, matchVars, textVars, callVars>>

(***************************************************************************)
(* Bounds of the model.                                                    *)
(***************************************************************************)
MaxCapacity == 2
MaxTime == 2
MaxLoads == 3
MaxThreadCalls == 2

Paths == {"a.png", "b.png", "c.png", "d.png"}

Threads == {"T1", "T2"}

\* The paths the threads ask for.
ThreadPaths == {"a.png", "b.png", "c.png"}

None == "None"

\* An Optional value that is compared with values of another type is a set:
\* {} for None, {x} for x.
Nothing == {}
Some(x) == {x}

(***************************************************************************)
(* Python dict                                                             *)
(***************************************************************************)
DictKeys(d) == {d[i].k : i \in 1..Len(d)}

DictGet(d, key) == d[CHOOSE i \in 1..Len(d) : d[i].k = key].v

DictSet(d, key, val) ==
    IF key \in DictKeys(d)
    THEN [i \in 1..Len(d) |-> IF d[i].k = key THEN [k |-> key, v |-> val] ELSE d[i]]
    ELSE Append(d, [k |-> key, v |-> val])

DictDel(d, key) == SelectSeq(d, LAMBDA e : e.k # key)

(***************************************************************************)
(* VisionCache                                                             *)
(***************************************************************************)
\* Mutant: the first-inserted key instead of the least recently accessed.
OldestKey_First(at) == at[1].k

\* Mutant: among the keys with the smallest time, the last in the dict's order.
OldestKey_LastOfTied(at) ==
    at[CHOOSE i \in 1..Len(at) :
          \A j \in 1..Len(at) : at[i].v < at[j].v \/ (at[i].v = at[j].v /\ i >= j)].k

\* min(self.access_times.keys(), key=lambda k: self.access_times[k]):
\* the first key, in the dict's order, among those with the smallest time.
OldestKey(at) ==
    at[CHOOSE i \in 1..Len(at) :
          \A j \in 1..Len(at) : at[i].v < at[j].v \/ (at[i].v = at[j].v /\ i <= j)].k

\* Mutant: the loop that never evicts.
EvictLoop_Never(c, a, cap, ev) ==
    [cache |-> c, access_times |-> a, evicted |-> ev, err |-> "none"]

RECURSIVE EvictLoop(_, _, _, _)
EvictLoop(c, a, cap, ev) ==
    IF Len(c) >= cap
    THEN IF Len(a) = 0
         THEN [cache |-> c, access_times |-> a, evicted |-> ev, err |-> "ValueError"]
         ELSE LET oldest_key == OldestKey(a)
              IN  IF oldest_key \notin DictKeys(c)
                  THEN [cache |-> c, access_times |-> a, evicted |-> ev, err |-> "KeyError"]
                  ELSE EvictLoop(DictDel(c, oldest_key), DictDel(a, oldest_key),
                                 cap, Append(ev, oldest_key))
    ELSE [cache |-> c, access_times |-> a, evicted |-> ev, err |-> "none"]

\* Mutant: the new entry gets no timestamp.
_add_to_cache_NoTimestamp(c, a, cap, key, value, current_time) ==
    LET r == EvictLoop(c, a, cap, <<>>)
    IN  IF r.err # "none"
        THEN r
        ELSE [cache |-> DictSet(r.cache, key, value),
              access_times |-> r.access_times,
              evicted |-> r.evicted, err |-> "none"]

_add_to_cache(c, a, cap, key, value, current_time) ==
    LET r == EvictLoop(c, a, cap, <<>>)
    IN  IF r.err # "none"
        THEN r
        ELSE [cache |-> DictSet(r.cache, key, value),
              access_times |-> DictSet(r.access_times, key, current_time),
              evicted |-> r.evicted, err |-> "none"]

\* Mutant: the age computed with its operands swapped.
StillValid_Swapped(a, key, current_time, life) ==
    DictGet(a, key) - current_time < life

\* The entry is still valid: current_time - self.access_times[image_path] < self.ttl
StillValid(a, key, current_time, life) == current_time - DictGet(a, key) < life

\* Mutant: a hit that sets the access time of every entry.
Touch_Every(a, key, current_time) == [i \in 1..Len(a) |-> [k |-> a[i].k, v |-> current_time]]

\* Mutant: a hit that leaves the access time alone.
Touch_Skipped(a, key, current_time) == a

\* On a hit: self.access_times[image_path] = current_time
Touch(a, key, current_time) == DictSet(a, key, current_time)

\* loadable: Path(image_path).exists() and cv2.imread gave an image; obj: that image.
get_template(c, a, cap, life, image_path, current_time, loadable, obj) ==
    LET held == image_path \in DictKeys(c)
        valid == held /\ StillValid(a, image_path, current_time, life)
        c1 == IF held /\ ~valid THEN DictDel(c, image_path) ELSE c
        a1 == IF held /\ ~valid THEN DictDel(a, image_path) ELSE a
        how == IF held THEN "expired" ELSE "absent"
    IN  IF valid
        THEN [cache |-> c, access_times |-> Touch(a, image_path, current_time),
              ret |-> Some(DictGet(c, image_path)), evicted |-> <<>>, err |-> "none",
              path |-> "hit", loaded |-> FALSE]
        ELSE IF loadable
        THEN LET r == _add_to_cache(c1, a1, cap, image_path, obj, current_time)
             IN  [cache |-> r.cache, access_times |-> r.access_times,
                  ret |-> IF r.err = "none" THEN Some(obj) ELSE Nothing,
                  evicted |-> r.evicted, err |-> r.err,
                  path |-> how, loaded |-> TRUE]
        ELSE [cache |-> c1, access_times |-> a1, ret |-> Nothing, evicted |-> <<>>,
              err |-> "none", path |-> how, loaded |-> FALSE]

\* age: how long before the call the path was last accessed (None: not held);
\* prevHit: the path the call before this one hit (None: it was no hit);
\* evictedAge: for each evicted path, how long before the call it was last
\* accessed.
NoCall == [op |-> "init", key |-> None, ret |-> Nothing, evicted |-> <<>>,
           err |-> "none", path |-> "none", loaded |-> FALSE,
           age |-> Nothing, prevHit |-> None, evictedAge |-> <<>>]

\* How long before current_time each of the evicted paths was last accessed.
EvictedAge(a, evicted, current_time) ==
    [i \in 1..Len(evicted) |-> current_time - DictGet(a, evicted[i])]

\* No thread is inside the cache.
Idle == [pc |-> "idle", image_path |-> None, current_time |-> 0,
         oldest_key |-> None, template |-> 0, err |-> "none", calls |-> 0]

\* No resolution call is under way.
TextOff ==
    /\ target_text = <<>>
    /\ fuzzy_threshold = 0
    /\ ocr = "off"
    /\ data = <<>>

\* find_template is not under way: its arguments at their defaults (line 61-62).
CallOff ==
    /\ method = "auto"
    /\ multi_scale = TRUE

MatchOff ==
    /\ TextOff
    /\ CallOff
    /\ confidence = 0
    /\ template_ok = TRUE
    /\ shape = [template_w |-> 0, template_h |-> 0, frame_w |-> 0, frame_h |-> 0]
    /\ corr = Nothing
    /\ pc = "off"
    /\ trace = <<>>
    /\ result = Nothing
    /\ error = "none"

\* VisionCache.__init__ with a configured capacity and TTL.
CacheInit ==
    /\ MatchOff
    /\ cache = <<>>
    /\ access_times = <<>>
    /\ max_size \in 1..MaxCapacity
    /\ ttl \in 1..MaxTime
    /\ clock = 0
    /\ loads = 0
    /\ last = NoCall
    /\ th = [t \in Threads |-> Idle]

\* One call of get_template, run to its end before the next call starts.
GetTemplate ==
    \E image_path \in Paths, current_time \in clock..MaxTime, loadable \in BOOLEAN :
        LET r == get_template(cache, access_times, max_size, ttl, image_path,
                              current_time, loadable, loads + 1)
        IN  /\ loads < MaxLoads
            /\ cache' = r.cache
            /\ access_times' = r.access_times
            /\ clock' = current_time
            /\ loads' = IF r.loaded THEN loads + 1 ELSE loads
            /\ last' = [op |-> "get", key |-> image_path, ret |-> r.ret,
                        evicted |-> r.evicted, err |-> r.err, path |-> r.path,
                        loaded |-> r.loaded,
                        age |-> IF image_path \in DictKeys(cache)
                                THEN Some(current_time - DictGet(access_times, image_path))
                                ELSE Nothing,
                        prevHit |-> IF last.path = "hit" THEN last.key ELSE None,
                evictedAge |-> EvictedAge(access_times, r.evicted, current_time)]
            /\ UNCHANGED <<max_size, ttl, th, matchVars, textVars, callVars>>

\* VisionCache.clear
Clear ==
    /\ cache' = <<>>
    /\ access_times' = <<>>
    /\ last' = [NoCall EXCEPT !.op = "clear"]
    /\ UNCHANGED <<max_size, ttl, clock, loads, th, matchVars, textVars, callVars>>

CacheNext == GetTemplate \/ Clear

SpecCache == CacheInit /\ [][CacheNext]_vars

(***************************************************************************)
(* Claims about the cache, one call at a time (SpecCache)                  *)
(***************************************************************************)
\* The paths a step adds to the cache, and those it removes.
NewKeys == DictKeys(cache') \ DictKeys(cache)
GoneKeys == DictKeys(cache) \ DictKeys(cache')

\* C4: after any sequence of get_template and clear calls the cache holds at
\* most max_size entries.
C4_SizeWithinCapacity == Len(cache) <= max_size

C4_Witness ==
    /\ last.op = "get" /\ last.loaded
    /\ Len(last.evicted) = 1
    /\ Len(cache) = max_size

\* C5: an insertion into a cache that holds fewer than max_size entries evicts
\* nothing; an insertion into a full cache (the capacity + 1st distinct
\* template) evicts exactly one entry, and no held entry has a smaller
\* last_access_time than the evicted one.
C5_EvictsLeastRecentlyAccessed ==
    [][NewKeys # {} =>
         IF Len(cache) >= max_size
         THEN \E k \in DictKeys(cache) :
                 /\ GoneKeys = {k}
                 /\ \A j \in DictKeys(cache) :
                        DictGet(access_times, k) <= DictGet(access_times, j)
         ELSE GoneKeys = {}]_vars

C5_Witness ==
    /\ last.op = "get" /\ last.loaded
    /\ loads = max_size + 1
    /\ Len(cache) = max_size
    /\ Len(last.evicted) = 1
    /\ \A j \in DictKeys(cache) : DictGet(access_times, j) > 0

\* C6: a get of a held path whose last access is more than ttl ago does not
\* return the held entry: the caller gets None or a newly decoded template,
\* and the old entry is no longer held; this needs no eviction to have
\* happened.
C6_ExpiredIsMiss ==
    [][\A p \in DictKeys(cache) :
          (last'.op = "get" /\ last'.key = p
             /\ clock' - DictGet(access_times, p) > ttl)
          => /\ DictGet(cache, p) \notin last'.ret
             /\ p \in DictKeys(cache') => DictGet(cache', p) # DictGet(cache, p)]_vars

C6_Witness ==
    /\ last.op = "get" /\ last.path = "expired"
    /\ \E age \in last.age : age > ttl
    /\ last.evicted = <<>>
    /\ loads <= max_size

\* C7: a get that hits returns the held template and sets the entry's
\* last_access_time to the time of the get; and when that time is later than
\* the last access of every other held entry, the next insertion into the
\* full cache does not evict the entry that was hit.
C7_HitRefreshesRecency ==
    [][/\ \A p \in DictKeys(cache) :
            (last'.op = "get" /\ last'.key = p /\ last'.path = "hit")
            => /\ DictGet(access_times', p) = clock'
               /\ last'.ret = Some(DictGet(cache, p))
       /\ (/\ last.path = "hit"
           /\ Len(cache) >= 2
           /\ \A j \in DictKeys(cache) \ {last.key} : DictGet(access_times, j) < clock
           /\ Len(cache) >= max_size
           /\ NewKeys # {})
          => last.key \in DictKeys(cache')]_vars

C7_Witness ==
    /\ last.op = "get" /\ last.loaded
    /\ Len(last.evicted) = 1
    /\ last.prevHit # None
    /\ last.prevHit \in DictKeys(cache)
    /\ cache[1].k = last.prevHit

\* The held keys whose last_access_time is the smallest.
Tied == {k \in DictKeys(access_times) :
            \A j \in DictKeys(access_times) :
                DictGet(access_times, k) <= DictGet(access_times, j)}

\* The key among ks that was put into the cache first (self.cache keeps its
\* keys in insertion order).
EarliestInserted(ks) ==
    cache[CHOOSE i \in 1..Len(cache) :
             cache[i].k \in ks /\ \A j \in 1..(i - 1) : cache[j].k \notin ks].k

\* C25: when a template is put into a full cache in which several entries
\* share the smallest last_access_time, exactly one entry is evicted, it is
\* the one of them that was inserted earliest, and it was taken from the
\* entries held before the new one went in: the new entry is held afterwards.
C25_TieEvictsEarliestInserted ==
    [][(/\ last'.op = "get" /\ last'.loaded
        /\ last'.key \notin DictKeys(cache)
        /\ Len(cache) >= max_size
        /\ Cardinality(Tied) >= 2)
       => /\ last'.evicted = <<EarliestInserted(Tied)>>
          /\ GoneKeys = {EarliestInserted(Tied)}
          /\ last'.key \in DictKeys(cache')
          /\ Len(cache') = max_size]_vars

\* The entry the call before hit is the one evicted while another entry stays:
\* with a clock that never runs backwards that entry's time is the latest, so
\* it can be the smallest only in a tie, and it went because it was inserted
\* before the entry that stays.
C25_Witness ==
    /\ last.op = "get" /\ last.loaded
    /\ last.prevHit # None
    /\ last.evicted = <<last.prevHit>>
    /\ Len(cache) >= 2

\* At the time now the entry k is within its TTL (line 602).
Live(k, now) == now - DictGet(access_times, k) < ttl

\* C28: with a clock that never runs backwards, a capacity eviction does not
\* remove an entry that is within its TTL at the time of the call while the
\* cache holds an entry whose last access is at least TTL ago.
C28_ExpiredEvictedBeforeLive ==
    [][last'.op = "get" =>
          \A i \in 1..Len(last'.evicted) :
              Live(last'.evicted[i], clock') =>
                  \A j \in DictKeys(cache) : Live(j, clock')]_vars

\* An entry last accessed at least TTL ago was evicted, and an entry accessed
\* before this call and still within its TTL stays in the cache.
C28_Witness ==
    /\ last.op = "get" /\ last.loaded
    /\ Len(last.evicted) = 1
    /\ last.evictedAge[1] >= ttl
    /\ \E j \in DictKeys(cache) :
          /\ j # last.key
          /\ DictGet(access_times, j) < clock
          /\ clock - DictGet(access_times, j) < ttl

\* C29: after any sequence of get_template and clear calls made one at a
\* time, self.cache and self.access_times hold the same keys: every held
\* template has a timestamp and every timestamp belongs to a held template.
C29_MapsHoldSameKeys ==
    /\ DictKeys(cache) = DictKeys(access_times)
    /\ Len(cache) = Len(access_times)

\* An expired entry was removed and its reload failed, while another entry
\* is still held.
C29_Witness ==
    /\ last.op = "get"
    /\ last.path = "expired"
    /\ ~last.loaded
    /\ last.ret = Nothing
    /\ last.key \notin DictKeys(cache)
    /\ Len(cache) >= 1

\* C30: a get of a held path that is within its TTL changes nothing in the
\* cache but that path's last_access_time: the held keys, every held template
\* and the timestamps of the other entries stay as they were; and a get of a
\* path that is not held and cannot be loaded changes nothing at all.
C30_HitAndFailedLoadFrame ==
    [][last'.op = "get" =>
          /\ (/\ last'.key \in DictKeys(cache)
              /\ clock' - DictGet(access_times, last'.key) < ttl)
             => /\ cache' = cache
                /\ DictKeys(access_times') = DictKeys(access_times)
                /\ Len(access_times') = Len(access_times)
                /\ \A k \in DictKeys(access_times) \ {last'.key} :
                      DictGet(access_times', k) = DictGet(access_times, k)
          /\ (last'.key \notin DictKeys(cache) /\ ~last'.loaded)
             => cache' = cache /\ access_times' = access_times]_vars

\* A hit moved the timestamp of its entry forward while another entry, last
\* accessed earlier, is held.
C30_Witness ==
    /\ last.op = "get" /\ last.path = "hit"
    /\ \E age \in last.age : age >= 1
    /\ DictGet(access_times, last.key) = clock
    /\ \E j \in DictKeys(cache) \ {last.key} : DictGet(access_times, j) < clock

(***************************************************************************)
(* VisionCache.get_template called from several threads on one cache.      *)
(* VisionCache holds no lock, so a thread switch can fall between any two  *)
(* statements; one statement is one step (a switch inside a statement is   *)
(* possible too, and gives only more interleavings).                       *)
(***************************************************************************)
\* What get_template leaves of a thread's state when it returns.
Return(t) == th' = [th EXCEPT ![t] = [Idle EXCEPT !.calls = th[t].calls]]

Goto(t, line) == th' = [th EXCEPT ![t].pc = line]

Raise(t, exc) == th' = [th EXCEPT ![t].pc = "raised", ![t].err = exc]

\* A thread calls get_template(image_path); line 598 reads the clock.
ThreadCall(t) ==
    /\ th[t].pc = "idle"
    /\ th[t].calls < MaxThreadCalls
    /\ \E image_path \in ThreadPaths, current_time \in clock..MaxTime :
          /\ th' = [th EXCEPT ![t] = [Idle EXCEPT !.pc = "L600",
                                                  !.image_path = image_path,
                                                  !.current_time = current_time,
                                                  !.calls = th[t].calls + 1]]
          /\ clock' = current_time
    /\ UNCHANGED <<cache, access_times, max_size, ttl, loads, last, matchVars, textVars, callVars>>

\* line 600: if image_path in self.cache
ThreadL600(t) ==
    /\ th[t].pc = "L600"
    /\ Goto(t, IF th[t].image_path \in DictKeys(cache) THEN "L602" ELSE "L611")
    /\ UNCHANGED <<cacheVars, matchVars, textVars, callVars>>

\* line 602: if current_time - self.access_times[image_path] < self.ttl
ThreadL602(t) ==
    /\ th[t].pc = "L602"
    /\ IF th[t].image_path \notin DictKeys(access_times)
       THEN Raise(t, "KeyError")
       ELSE Goto(t, IF StillValid(access_times, th[t].image_path, th[t].current_time, ttl)
                    THEN "L603" ELSE "L607")
    /\ UNCHANGED <<cacheVars, matchVars, textVars, callVars>>

\* line 603: self.access_times[image_path] = current_time
ThreadL603(t) ==
    /\ th[t].pc = "L603"
    /\ access_times' = Touch(access_times, th[t].image_path, th[t].current_time)
    /\ Goto(t, "L604")
    /\ UNCHANGED <<cache, max_size, ttl, clock, loads, last, matchVars, textVars, callVars>>

\* line 604: return self.cache[image_path]
ThreadL604(t) ==
    /\ th[t].pc = "L604"
    /\ IF th[t].image_path \notin DictKeys(cache)
       THEN Raise(t, "KeyError")
       ELSE Return(t)
    /\ UNCHANGED <<cacheVars, matchVars, textVars, callVars>>

\* line 607: del self.cache[image_path]
ThreadL607(t) ==
    /\ th[t].pc = "L607"
    /\ IF th[t].image_path \notin DictKeys(cache)
       THEN Raise(t, "KeyError") /\ UNCHANGED cache
       ELSE Goto(t, "L608") /\ cache' = DictDel(cache, th[t].image_path)
    /\ UNCHANGED <<access_times, max_size, ttl, clock, loads, last, matchVars, textVars, callVars>>

\* line 608: del self.access_times[image_path]
ThreadL608(t) ==
    /\ th[t].pc = "L608"
    /\ IF th[t].image_path \notin DictKeys(access_times)
       THEN Raise(t, "KeyError") /\ UNCHANGED access_times
       ELSE Goto(t, "L611") /\ access_times' = DictDel(access_times, th[t].image_path)
    /\ UNCHANGED <<cache, max_size, ttl, clock, loads, last, matchVars, textVars, callVars>>

\* lines 611-617: the file is read and decoded, or None is returned.
ThreadL611(t) ==
    /\ th[t].pc = "L611"
    /\ \E loadable \in BOOLEAN :
          IF loadable
          THEN /\ th' = [th EXCEPT ![t].pc = "L622", ![t].template = loads + 1]
               /\ loads' = loads + 1
          ELSE /\ Return(t)
               /\ UNCHANGED loads
    /\ UNCHANGED <<cache, access_times, max_size, ttl, clock, last, matchVars, textVars, callVars>>

\* line 622: while len(self.cache) >= self.max_size
ThreadL622(t) ==
    /\ th[t].pc = "L622"
    /\ Goto(t, IF Len(cache) >= max_size THEN "L623" ELSE "L627")
    /\ UNCHANGED <<cacheVars, matchVars, textVars, callVars>>

\* line 623: oldest_key = min(self.access_times.keys(), ...)
ThreadL623(t) ==
    /\ th[t].pc = "L623"
    /\ IF Len(access_times) = 0
       THEN Raise(t, "ValueError")
       ELSE th' = [th EXCEPT ![t].pc = "L624",
                             ![t].oldest_key = OldestKey(access_times)]
    /\ UNCHANGED <<cacheVars, matchVars, textVars, callVars>>

\* line 624: del self.cache[oldest_key]
ThreadL624(t) ==
    /\ th[t].pc = "L624"
    /\ IF th[t].oldest_key \notin DictKeys(cache)
       THEN Raise(t, "KeyError") /\ UNCHANGED cache
       ELSE Goto(t, "L625") /\ cache' = DictDel(cache, th[t].oldest_key)
    /\ UNCHANGED <<access_times, max_size, ttl, clock, loads, last, matchVars, textVars, callVars>>

\* line 625: del self.access_times[oldest_key]
ThreadL625(t) ==
    /\ th[t].pc = "L625"
    /\ IF th[t].oldest_key \notin DictKeys(access_times)
       THEN Raise(t, "KeyError") /\ UNCHANGED access_times
       ELSE Goto(t, "L622") /\ access_times' = DictDel(access_times, th[t].oldest_key)
    /\ UNCHANGED <<cache, max_size, ttl, clock, loads, last, matchVars, textVars, callVars>>

\* line 627: self.cache[key] = value
ThreadL627(t) ==
    /\ th[t].pc = "L627"
    /\ cache' = DictSet(cache, th[t].image_path, th[t].template)
    /\ Goto(t, "L628")
    /\ UNCHANGED <<access_times, max_size, ttl, clock, loads, last, matchVars, textVars, callVars>>

\* line 628: self.access_times[key] = current_time; line 615 returns the template.
ThreadL628(t) ==
    /\ th[t].pc = "L628"
    /\ access_times' = DictSet(access_times, th[t].image_path, th[t].current_time)
    /\ Return(t)
    /\ UNCHANGED <<cache, max_size, ttl, clock, loads, last, matchVars, textVars, callVars>>

ThreadsNext ==
    \E t \in Threads :
        \/ ThreadCall(t)
        \/ ThreadL600(t)
        \/ ThreadL602(t)
        \/ ThreadL603(t)
        \/ ThreadL604(t)
        \/ ThreadL607(t)
        \/ ThreadL608(t)
        \/ ThreadL611(t)
        \/ ThreadL622(t)
        \/ ThreadL623(t)
        \/ ThreadL624(t)
        \/ ThreadL625(t)
        \/ ThreadL627(t)
        \/ ThreadL628(t)

SpecThreads == CacheInit /\ [][ThreadsNext]_vars

(***************************************************************************)
(* Claims about the cache under concurrent calls (SpecThreads)             *)
(***************************************************************************)
\* C8: concurrent calls on one cache behave as if every cache mutation were
\* atomic: no call fails on a key that another call has already removed (no
\* double eviction), and whenever no call is inside the cache the template
\* map and the timestamp map hold the same keys and at most max_size of them.
C8_MutationsAtomic ==
    /\ \A t \in Threads : th[t].err = "none"
    /\ (\A t \in Threads : th[t].pc = "idle")
       => /\ DictKeys(cache) = DictKeys(access_times)
          /\ Len(cache) <= max_size

(***************************************************************************)
(* TemplateMatcher: the inputs                                             *)
(*                                                                         *)
(* A frame and a template enter the matchers only through their sizes and  *)
(* through what cv2 computes on them: the extreme value of a correlation   *)
(* surface and its place, descriptor counts, an inlier ratio.  Those are   *)
(* the inputs drawn here.                                                  *)
(***************************************************************************)
\* A confidence of 1.0.
One == 1000

\* The thresholds callers pass (0.0, 0.6, 0.62, 0.63, 0.7, 1.0): 0.62 and 0.63
\* lie on the two sides of 0.625, where the stage-3 threshold 0.8 * c crosses
\* the floor 0.5 of stage 5; the stage thresholds of all six are whole
\* thousandths.
CallerThresholds == {0, 600, 620, 630, 700, 1000}

\* The values a normalized correlation takes here (TM_CCOEFF_NORMED can be
\* negative; the others lie in 0..One).
Scores == {-200, 0, 495, 500, 520, 900}

Ratios == {v \in Scores : v >= 0}

\* template 12x12 in a frame 13x13; a template 20x30, taller than the frame
\* 25x20 and narrower; a template 30x30, larger than the frame 20x20 both ways;
\* a template 4x4, below 10 pixels at every scale factor.
Shapes ==
    { [template_w |-> 12, template_h |-> 12, frame_w |-> 13, frame_h |-> 13],
      [template_w |-> 4, template_h |-> 4, frame_w |-> 13, frame_h |-> 13],
      [template_w |-> 20, template_h |-> 30, frame_w |-> 25, frame_h |-> 20],
      [template_w |-> 30, template_h |-> 30, frame_w |-> 20, frame_h |-> 20] }

\* cv2.matchTemplate(image, templ): when the image is smaller than the template
\* in one dimension it must not be larger in the other (cv2.error), and the
\* two are then swapped.
MatchTemplateRaises(w, h, frame_w, frame_h) ==
    (frame_w < w \/ frame_h < h) /\ ~(frame_w <= w /\ frame_h <= h)

\* Width (or height) of the surface cv2.matchTemplate returns.
SurfaceDim(n, frame_n) == IF n <= frame_n THEN frame_n - n + 1 ELSE n - frame_n + 1

\* The places of an extreme value that are drawn: the corners of the surface.
Corner(i, w, h, sh) ==
    LET sw == SurfaceDim(w, sh.frame_w)
        shh == SurfaceDim(h, sh.frame_h)
    IN  CASE i = 1 -> <<0, 0>>
          [] i = 2 -> <<sw - 1, 0>>
          [] OTHER -> <<sw - 1, shh - 1>>

\* cv2.minMaxLoc of the three surfaces of _match_template: the maximum of
\* TM_CCOEFF_NORMED and TM_CCORR_NORMED, the minimum of TM_SQDIFF_NORMED.
Surfaces(sh) ==
    { <<[val |-> a, loc |-> Corner(1, sh.template_w, sh.template_h, sh)],
        [val |-> b, loc |-> Corner(2, sh.template_w, sh.template_h, sh)],
        [val |-> One - c, loc |-> Corner(3, sh.template_w, sh.template_h, sh)]>> :
      a \in Scores, b \in Ratios, c \in Ratios }

(***************************************************************************)
(* TemplateMatcher: the matchers                                           *)
(***************************************************************************)
MatchResult(x, y, width, height, conf, center_x, center_y, tag) ==
    [x |-> x, y |-> y, width |-> width, height |-> height, confidence |-> conf,
     center_x |-> center_x, center_y |-> center_y, method |-> tag]

\* methods of _match_template, in the order tried
Formulas == <<"TM_CCOEFF_NORMED", "TM_CCORR_NORMED", "TM_SQDIFF_NORMED">>

\* match_confidence: 1 - min_val for TM_SQDIFF_NORMED, max_val for the others
MatchConfidence(formula, peak) ==
    IF formula = "TM_SQDIFF_NORMED" THEN One - peak.val ELSE peak.val

RECURSIVE MatchTemplateLoop(_, _, _, _, _, _)
MatchTemplateLoop(sh, surf, thr, i, best_result, best_confidence) ==
    IF i > Len(Formulas)
    THEN best_result
    ELSE LET match_confidence == MatchConfidence(Formulas[i], surf[i])
             top_left == surf[i].loc
             w == sh.template_w
             h == sh.template_h
         IN  IF match_confidence > best_confidence /\ match_confidence >= thr
             THEN MatchTemplateLoop(sh, surf, thr, i + 1,
                      Some(MatchResult(top_left[1], top_left[2], w, h, match_confidence,
                                       top_left[1] + w \div 2, top_left[2] + h \div 2,
                                       <<"template">>)),
                      match_confidence)
             ELSE MatchTemplateLoop(sh, surf, thr, i + 1, best_result, best_confidence)

\* _match_template on a frame and template that cv2.matchTemplate accepts
_match_template(sh, surf, thr) == MatchTemplateLoop(sh, surf, thr, 1, Nothing, 0)

\* scale_factors, in tenths
ScaleFactors == <<5, 6, 7, 8, 9, 10, 11, 12, 13, 14, 15, 16, 17, 18, 19, 20>>

\* f"{scale:.1f}x"
ScaleNames == <<"0.5x", "0.6x", "0.7x", "0.8x", "0.9x", "1.0x", "1.1x", "1.2x",
                "1.3x", "1.4x", "1.5x", "1.6x", "1.7x", "1.8x", "1.9x", "2.0x">>

\* Mutant: the scaled size is rounded up.
ScaledDim_RoundedUp(n, scale) == (n * scale + 9) \div 10

\* int(original_w * scale)
ScaledDim(n, scale) == (n * scale) \div 10

MinScaledSize == 10

\* The scale is neither skipped as larger than the frame nor as too small.
Attempted(sh, i) ==
    LET scaled_w == ScaledDim(sh.template_w, ScaleFactors[i])
        scaled_h == ScaledDim(sh.template_h, ScaleFactors[i])
    IN  /\ ~(scaled_h > sh.frame_h \/ scaled_w > sh.frame_w)
        /\ ~(scaled_h < MinScaledSize \/ scaled_w < MinScaledSize)

AttemptedScales(sh) == {i \in 1..Len(ScaleFactors) : Attempted(sh, i)}

\* cv2.minMaxLoc of the TM_CCOEFF_NORMED surface at each attempted scale
ScalePeaks(sh) ==
    LET peak(i, k, v) ==
            [val |-> v,
             loc |-> Corner(k, ScaledDim(sh.template_w, ScaleFactors[i]),
                            ScaledDim(sh.template_h, ScaleFactors[i]), sh)]
    IN  {[i \in AttemptedScales(sh) |-> peak(i, ks[i], vs[i])] :
            vs \in [AttemptedScales(sh) -> Scores],
            ks \in [AttemptedScales(sh) -> {1, 3}]}

\* One pass of the loop of lines 280-311, as the properties below see it: the factor,
\* whether cv2.matchTemplate was run at it, and best_result after the pass.
ScalePass(i, matched, best_result) ==
    [scale |-> ScaleFactors[i], matched |-> matched, best_result |-> best_result]

\* The loop of lines 280-311 from factor i on; gives best_result and the passes.
RECURSIVE MultiScaleLoop(_, _, _, _, _, _, _)
MultiScaleLoop(sh, peaks, thr, i, best_result, best_confidence, passes) ==
    IF i > Len(ScaleFactors)
    THEN [best_result |-> best_result, passes |-> passes]
    ELSE IF ~Attempted(sh, i)
    THEN MultiScaleLoop(sh, peaks, thr, i + 1, best_result, best_confidence,
                        Append(passes, ScalePass(i, FALSE, best_result)))
    ELSE LET scaled_w == ScaledDim(sh.template_w, ScaleFactors[i])
             scaled_h == ScaledDim(sh.template_h, ScaleFactors[i])
             max_val == peaks[i].val
             max_loc == peaks[i].loc
             found == Some(MatchResult(max_loc[1], max_loc[2], scaled_w, scaled_h, max_val,
                                       max_loc[1] + scaled_w \div 2,
                                       max_loc[2] + scaled_h \div 2,
                                       <<"multi_scale_", ScaleNames[i]>>))
         IN  IF max_val > best_confidence /\ max_val >= thr
             THEN MultiScaleLoop(sh, peaks, thr, i + 1, found, max_val,
                                 Append(passes, ScalePass(i, TRUE, found)))
             ELSE MultiScaleLoop(sh, peaks, thr, i + 1, best_result, best_confidence,
                                 Append(passes, ScalePass(i, TRUE, best_result)))

_match_multi_scale(sh, peaks, thr) ==
    MultiScaleLoop(sh, peaks, thr, 1, Nothing, 0, <<>>).best_result

\* What SIFT, FLANN and RANSAC give on the frame and template: an exception
\* inside the try block (from knnMatch or a later call), the descriptor arrays (None, or their
\* length), the matches that pass the ratio test, whether a homography was
\* found, the inlier ratio and the box of the projected corners (which a
\* homography can put anywhere: nothing clamps it to the frame).
FeatureInputs ==
    [raises : BOOLEAN,
     des1 : {Nothing, Some(9), Some(10)},
     des2 : {Nothing, Some(5), Some(40)},
     good_matches : {9, 10},
     homography : BOOLEAN,
     inlier_ratio : Ratios,
     box : {[x |-> 1, y |-> 0, width |-> 11, height |-> 12],
            [x |-> -2, y |-> 0, width |-> 0, height |-> 12]}]

\* How a call of _match_features ends: what it returns, and whether it got
\* as far as self.flann.knnMatch(des1, des2, k=2) (line 207).
FeatureEnd(res, knnMatch) == [res |-> res, knnMatch |-> knnMatch]

\* _match_features, lines 195-261.  An exception is taken to come from
\* knnMatch or later (the calls before it do not fail on image arrays).
FeatureRun(sh, feat, thr) ==
    IF feat.des1 = Nothing \/ feat.des2 = Nothing
       \/ (\E n \in feat.des1 : n < 10)
    THEN FeatureEnd(Nothing, FALSE)
    ELSE IF feat.raises
    THEN FeatureEnd(Nothing, TRUE)
    ELSE IF feat.good_matches < 10
    THEN FeatureEnd(Nothing, TRUE)
    ELSE IF ~feat.homography
    THEN FeatureEnd(Nothing, TRUE)
    ELSE IF feat.inlier_ratio >= thr
    THEN FeatureEnd(Some(MatchResult(feat.box.x, feat.box.y, feat.box.width,
                                     feat.box.height, feat.inlier_ratio,
                                     feat.box.x + feat.box.width \div 2,
                                     feat.box.y + feat.box.height \div 2,
                                     <<"feature">>)),
                    TRUE)
    ELSE FeatureEnd(Nothing, TRUE)

_match_features(sh, feat, thr) == FeatureRun(sh, feat, thr).res

\* preprocessing_methods, in the order tried
PreprocessingMethods == <<"original", "blur", "threshold", "edges", "morphology">>

\* What each transform after "original" gives: an exception, or the maximum
\* of the TM_CCOEFF_NORMED surface of the transformed pair.  "original"
\* leaves both images alone, so it gives the TM_CCOEFF_NORMED maximum that
\* _match_template finds.
PreprocessedScores == {0, 495, 900}

PreprocessedPeaks(sh) ==
    {[i \in 2..Len(PreprocessingMethods) |->
         [raises |-> rs[i], val |-> vs[i],
          loc |-> Corner(3, sh.template_w, sh.template_h, sh)]] :
        vs \in [2..Len(PreprocessingMethods) -> PreprocessedScores],
        rs \in [2..Len(PreprocessingMethods) -> BOOLEAN]}

\* cv2.matchTemplate on the pair after transform i: it raises when the shape
\* makes it raise, or when the transform itself failed.
TransformFails(sh, peaks, i) ==
    \/ MatchTemplateRaises(sh.template_w, sh.template_h, sh.frame_w, sh.frame_h)
    \/ (i > 1 /\ peaks[i].raises)

\* One pass of the loop of lines 372-395, as the properties below see it: the
\* transform, whether the pass ended in the except clause, and best_result
\* after the pass.
TransformPass(i, failed, best_result) ==
    [name |-> PreprocessingMethods[i], failed |-> failed, best_result |-> best_result]

\* The loop of lines 372-395 from transform i on; gives best_result and the passes.
RECURSIVE PreprocessingLoop(_, _, _, _, _, _, _, _)
PreprocessingLoop(sh, original, peaks, thr, i, best_result, best_confidence, passes) ==
    IF i > Len(PreprocessingMethods)
    THEN [best_result |-> best_result, passes |-> passes]
    ELSE LET raises == TransformFails(sh, peaks, i)
             max_val == IF i = 1 THEN original.val ELSE peaks[i].val
             max_loc == IF i = 1 THEN original.loc ELSE peaks[i].loc
             w == sh.template_w
             h == sh.template_h
             found == Some(MatchResult(max_loc[1], max_loc[2], w, h, max_val,
                                       max_loc[1] + w \div 2, max_loc[2] + h \div 2,
                                       <<"preprocessed_", PreprocessingMethods[i]>>))
         IN  IF ~raises /\ max_val > best_confidence /\ max_val >= thr
             THEN PreprocessingLoop(sh, original, peaks, thr, i + 1, found, max_val,
                                    Append(passes, TransformPass(i, FALSE, found)))
             ELSE PreprocessingLoop(sh, original, peaks, thr, i + 1,
                                    best_result, best_confidence,
                                    Append(passes, TransformPass(i, raises, best_result)))

_match_with_preprocessing(sh, original, peaks, thr) ==
    PreprocessingLoop(sh, original, peaks, thr, 1, Nothing, 0, <<>>).best_result

(***************************************************************************)
(* TemplateMatcher.find_template_with_fallbacks, stage by stage            *)
(***************************************************************************)
FloorThreshold == 500

StageMatchers == <<"_match_multi_scale", "_match_features", "_match_template",
                   "_match_with_preprocessing", "_match_template">>

\* Mutant: the preprocessing stage at half the caller's threshold.
StageThreshold_PreprocessingAtHalf(stage, c) ==
    CASE stage = 1 -> c
      [] stage = 2 -> (c * 9) \div 10
      [] stage = 3 -> (c * 8) \div 10
      [] stage = 4 -> (c * 5) \div 10
      [] OTHER -> 500

\* Mutant: the correlation stage at 0.9 of the caller's threshold.
StageThreshold_CorrelationAtNine(stage, c) ==
    CASE stage = 1 -> c
      [] stage = 2 -> (c * 9) \div 10
      [] stage = 3 -> (c * 9) \div 10
      [] stage = 4 -> (c * 7) \div 10
      [] OTHER -> 500

\* Mutant: the last resort at half the caller's threshold.
StageThreshold_HalfCaller(stage, c) ==
    CASE stage = 1 -> c
      [] stage = 2 -> (c * 9) \div 10
      [] stage = 3 -> (c * 8) \div 10
      [] stage = 4 -> (c * 7) \div 10
      [] OTHER -> (c * 5) \div 10

\* confidence, confidence * 0.9, confidence * 0.8, confidence * 0.7, 0.5
StageThreshold(stage, c) ==
    CASE stage = 1 -> c
      [] stage = 2 -> (c * 9) \div 10
      [] stage = 3 -> (c * 8) \div 10
      [] stage = 4 -> (c * 7) \div 10
      [] OTHER -> FloorThreshold

\* Mutant: a result at exactly the threshold is passed over.
Accepts_Above(stage, res, thr) ==
    IF stage = 5
    THEN res # Nothing
    ELSE res # Nothing /\ \A r \in res : r.confidence > thr

\* stages 1-4: if result and result.confidence >= threshold; stage 5: if result
Accepts(stage, res, thr) ==
    IF stage = 5
    THEN res # Nothing
    ELSE res # Nothing /\ \A r \in res : r.confidence >= thr

\* Mutant: the tag is left as the matcher set it.
Annotate_Skipped(res) == res

\* result.method += "_low_confidence"
Annotate(res) == {[r EXCEPT !.method = Append(r.method, "_low_confidence")] : r \in res}

\* The stage's matcher returned res.
StageReturns(stage, thr, res) ==
    /\ trace' = Append(trace, [stage |-> stage, matcher |-> StageMatchers[stage],
                               threshold |-> thr, res |-> res, raised |-> FALSE])
    /\ IF Accepts(stage, res, thr)
       THEN /\ pc' = "returned"
            /\ result' = IF stage = 5 THEN Annotate(res) ELSE res
       ELSE /\ pc' = IF stage = 5 THEN "returned" ELSE "s" \o ToString(stage + 1)
            /\ UNCHANGED result
    /\ UNCHANGED error

\* The stage's matcher raised: nothing in find_template_with_fallbacks catches it.
StageRaises(stage, thr, exc) ==
    /\ trace' = Append(trace, [stage |-> stage, matcher |-> StageMatchers[stage],
                               threshold |-> thr, res |-> Nothing, raised |-> TRUE])
    /\ pc' = "raised"
    /\ error' = exc
    /\ UNCHANGED result

CacheOff ==
    /\ cache = <<>>
    /\ access_times = <<>>
    /\ max_size = 1
    /\ ttl = 1
    /\ clock = 0
    /\ loads = 0
    /\ last = NoCall
    /\ th = [t \in Threads |-> Idle]

\* find_template_with_fallbacks(screenshot, template, confidence) is called.
CascadeInit ==
    /\ CacheOff
    /\ TextOff
    /\ CallOff
    /\ confidence \in CallerThresholds
    /\ template_ok \in BOOLEAN
    /\ shape \in Shapes
    /\ corr = Nothing
    /\ pc = "s1"
    /\ trace = <<>>
    /\ result = Nothing
    /\ error = "none"

\* Strategy 1 (lines 322-324): template.shape fails on a template that is no array.
Stage1 ==
    /\ pc = "s1"
    /\ LET thr == StageThreshold(1, confidence)
       IN  IF ~template_ok
           THEN StageRaises(1, thr, "AttributeError")
           ELSE \E peaks \in ScalePeaks(shape) :
                   StageReturns(1, thr, _match_multi_scale(shape, peaks, thr))
    /\ UNCHANGED <<confidence, template_ok, shape, corr, cacheVars, th, textVars, callVars>>

\* Strategy 2 (lines 327-329)
Stage2 ==
    /\ pc = "s2"
    /\ LET thr == StageThreshold(2, confidence)
       IN  \E feat \in FeatureInputs :
              StageReturns(2, thr, _match_features(shape, feat, thr))
    /\ UNCHANGED <<confidence, template_ok, shape, corr, cacheVars, th, textVars, callVars>>

\* Strategy 3 (lines 332-334): cv2.matchTemplate is first run on the pair here.
Stage3 ==
    /\ pc = "s3"
    /\ LET thr == StageThreshold(3, confidence)
       IN  IF MatchTemplateRaises(shape.template_w, shape.template_h,
                                  shape.frame_w, shape.frame_h)
           THEN StageRaises(3, thr, "cv2.error") /\ UNCHANGED corr
           ELSE \E surf \in Surfaces(shape) :
                   /\ corr' = Some(surf)
                   /\ StageReturns(3, thr, _match_template(shape, surf, thr))
    /\ UNCHANGED <<confidence, template_ok, shape, cacheVars, th, textVars, callVars>>

\* Strategy 4 (lines 337-339)
Stage4 ==
    /\ pc = "s4"
    /\ LET thr == StageThreshold(4, confidence)
       IN  \E surf \in corr, peaks \in PreprocessedPeaks(shape) :
              StageReturns(4, thr, _match_with_preprocessing(shape, surf[1], peaks, thr))
    /\ UNCHANGED <<confidence, template_ok, shape, corr, cacheVars, th, textVars, callVars>>

\* Strategy 5 (lines 342-348): the same surfaces as at stage 3.
Stage5 ==
    /\ pc = "s5"
    /\ LET thr == StageThreshold(5, confidence)
       IN  \E surf \in corr :
              StageReturns(5, thr, _match_template(shape, surf, thr))
    /\ UNCHANGED <<confidence, template_ok, shape, corr, cacheVars, th, textVars, callVars>>

CascadeNext == Stage1 \/ Stage2 \/ Stage3 \/ Stage4 \/ Stage5

SpecCascade == CascadeInit /\ [][CascadeNext]_vars

(***************************************************************************)
(* Claims about the cascade (SpecCascade)                                  *)
(***************************************************************************)
\* The stage whose matcher was the first to return a result ({}: none did).
FirstHit ==
    {i \in 1..Len(trace) :
        trace[i].res # Nothing /\ \A j \in 1..(i - 1) : trace[j].res = Nothing}

\* r is the match q: the same place, size and confidence, under q's method tag.
SameMatch(r, q) ==
    /\ <<r.x, r.y, r.width, r.height, r.center_x, r.center_y>>
         = <<q.x, q.y, q.width, q.height, q.center_x, q.center_y>>
    /\ r.confidence = q.confidence
    /\ Len(r.method) >= Len(q.method)
    /\ SubSeq(r.method, 1, Len(q.method)) = q.method

LowConfidence(r) == r.method[Len(r.method)] = "_low_confidence"

\* C1: the stages run in the order multi-scale, feature, correlation,
\* preprocessing, last-resort correlation; no stage runs after one that
\* returned a result; the call returns the match of that one stage; and it
\* returns none exactly when all five stages returned none.
C1_FirstStageWins ==
    /\ \A i \in 1..Len(trace) :
          /\ trace[i].stage = i
          /\ trace[i].matcher = <<"_match_multi_scale", "_match_features",
                                  "_match_template", "_match_with_preprocessing",
                                  "_match_template">>[i]
    /\ \A i \in 1..(Len(trace) - 1) : trace[i].res = Nothing
    /\ pc = "returned" =>
          /\ \A i \in FirstHit :
                \E r \in result : \E q \in trace[i].res : SameMatch(r, q)
          /\ result = Nothing <=>
                (Len(trace) = 5 /\ \A i \in 1..5 : trace[i].res = Nothing)
    /\ pc # "returned" => result = Nothing

C1_Witness ==
    /\ pc = "returned"
    /\ FirstHit = {4}
    /\ result # Nothing

\* C2: the matchers are called with the thresholds c, 0.9c, 0.8c, 0.7c and
\* the fixed 0.5, c being the caller's threshold.
C2_StageThresholds ==
    \A i \in 1..Len(trace) :
        LET call == trace[i]
        IN  CASE call.stage = 1 ->
                    call.matcher = "_match_multi_scale" /\ call.threshold = confidence
              [] call.stage = 2 ->
                    call.matcher = "_match_features" /\ 10 * call.threshold = 9 * confidence
              [] call.stage = 3 ->
                    call.matcher = "_match_template" /\ 10 * call.threshold = 8 * confidence
              [] call.stage = 4 ->
                    /\ call.matcher = "_match_with_preprocessing"
                    /\ 10 * call.threshold = 7 * confidence
              [] call.stage = 5 ->
                    call.matcher = "_match_template" /\ call.threshold = 500
              [] OTHER -> FALSE

C2_Witness ==
    /\ Len(trace) = 5
    /\ confidence = 700
    /\ {trace[i].stage : i \in 1..5} = 1..5

\* C3: a stage whose matcher raises counts as a stage that returned none: the
\* exception does not leave find_template_with_fallbacks, and the call goes on
\* to the remaining stages.
C3_StageExceptionsAbsorbed ==
    \A i \in 1..Len(trace) :
        trace[i].raised => (pc # "raised" /\ error = "none")

\* C9: a returned result is tagged low-confidence exactly when the fifth stage
\* produced it; a result of stages 1 to 4 keeps the tag its matcher gave it.
C9_LowConfidenceOnlyLastResort ==
    pc = "returned" =>
        \A r \in result :
            /\ LowConfidence(r) <=> FirstHit = {5}
            /\ \A i \in FirstHit \ {5} : \A q \in trace[i].res : r.method = q.method

C9_Witness ==
    /\ pc = "returned"
    /\ FirstHit = {5}
    /\ \E r \in result : LowConfidence(r) /\ r.confidence >= 500

\* The stage a returned result comes from, read off its tag.
ProducedBy(r) ==
    CASE LowConfidence(r) -> 5
      [] r.method[1] = "multi_scale_" -> 1
      [] r.method[1] = "feature" -> 2
      [] r.method[1] = "preprocessed_" -> 4
      [] OTHER -> 3

\* C26: every result the cascade returns has a confidence of at least the
\* threshold of the stage it comes from: c for a multi-scale result, 0.9*c for
\* a feature result, 0.8*c for a correlation result without annotation, 0.7*c
\* for a preprocessing result and 0.5 for a low-confidence result, where c is
\* the caller's threshold.
C26_ResultMeetsItsStageThreshold ==
    pc = "returned" =>
        \A r \in result :
            CASE ProducedBy(r) = 1 -> r.confidence >= confidence
              [] ProducedBy(r) = 2 -> r.confidence * 10 >= confidence * 9
              [] ProducedBy(r) = 3 -> r.confidence * 10 >= confidence * 8
              [] ProducedBy(r) = 4 -> r.confidence * 10 >= confidence * 7
              [] OTHER -> r.confidence >= 500

\* A preprocessing result is returned whose confidence is below the
\* threshold of the correlation stage before it.
C26_Witness ==
    /\ pc = "returned"
    /\ \E r \in result :
          /\ ProducedBy(r) = 4
          /\ r.confidence * 10 < confidence * 8
          /\ r.confidence * 10 >= confidence * 7

\* C27: a returned result tagged low-confidence has a confidence of at least
\* 0.5 and below 0.8*c, c being the caller's threshold; and for c <= 0.625
\* (8*c <= 5) no low-confidence result is returned: stage 5, when it is
\* reached, gets none from the correlation matcher.
C27_LowConfidenceBand ==
    pc = "returned" =>
        /\ \A r \in result :
              LowConfidence(r) =>
                  r.confidence >= 500 /\ r.confidence * 10 < confidence * 8
        /\ confidence * 8 <= 5000 =>
              /\ \A r \in result : ~LowConfidence(r)
              /\ \A i \in 1..Len(trace) : trace[i].stage = 5 => trace[i].res = Nothing

\* Just above 0.625: at c = 0.63 a confidence of exactly 0.5 is below the
\* stage-3 threshold 0.504 and is returned by stage 5.
C27_Witness ==
    /\ pc = "returned"
    /\ confidence = 630
    /\ \E r \in result : LowConfidence(r) /\ r.confidence = 500

(***************************************************************************)
(* _match_template called on its own: find_template(method="template")    *)
(***************************************************************************)
CorrelationInit ==
    /\ CacheOff
    /\ TextOff
    /\ method = "template"
    /\ multi_scale = TRUE
    /\ confidence \in CallerThresholds
    /\ template_ok = TRUE
    /\ shape \in Shapes
    /\ corr \in IF MatchTemplateRaises(shape.template_w, shape.template_h,
                                       shape.frame_w, shape.frame_h)
                THEN {Nothing}
                ELSE {Some(surf) : surf \in Surfaces(shape)}
    /\ pc = "template"
    /\ trace = <<>>
    /\ result = Nothing
    /\ error = "none"

\* find_template, lines 89-90: return self._match_template(screenshot, template, confidence)
FindTemplateCorrelation ==
    /\ pc = "template"
    /\ IF corr = Nothing
       THEN /\ trace' = Append(trace, [stage |-> 1, matcher |-> "_match_template",
                                       threshold |-> confidence, res |-> Nothing,
                                       raised |-> TRUE])
            /\ pc' = "raised"
            /\ error' = "cv2.error"
            /\ UNCHANGED result
       ELSE \E surf \in corr :
               LET res == _match_template(shape, surf, confidence)
               IN  /\ trace' = Append(trace, [stage |-> 1, matcher |-> "_match_template",
                                              threshold |-> confidence, res |-> res,
                                              raised |-> FALSE])
                   /\ pc' = "returned"
                   /\ result' = res
                   /\ UNCHANGED error
    /\ UNCHANGED <<confidence, template_ok, shape, corr, cacheVars, th, textVars, callVars>>

CorrelationNext == FindTemplateCorrelation

SpecCorrelation == CorrelationInit /\ [][CorrelationNext]_vars

(***************************************************************************)
(* Claims about the correlation matcher (SpecCorrelation)                  *)
(***************************************************************************)
\* C10: with the three confidences (TM_CCOEFF_NORMED maximum, TM_CCORR_NORMED
\* maximum, 1 - TM_SQDIFF_NORMED minimum), the matcher returns none exactly
\* when none of them reaches the threshold, and otherwise the place and the
\* confidence of a formula that has the highest confidence among those that
\* reach it.
C10_BestFormulaAboveThreshold ==
    pc = "returned" =>
        \A surf \in corr :
            LET conf == <<surf[1].val, surf[2].val, One - surf[3].val>>
                reach == {i \in 1..3 : conf[i] >= confidence}
            IN  /\ result = Nothing <=> reach = {}
                /\ \A r \in result :
                      \E i \in reach :
                          /\ \A j \in reach : conf[j] <= conf[i]
                          /\ r.confidence = conf[i]
                          /\ <<r.x, r.y>> = surf[i].loc

\* The template is larger than the frame in width or in height.
TemplateLarger(sh) == sh.template_w > sh.frame_w \/ sh.template_h > sh.frame_h

\* C11: when the template is larger than the frame in width or in height, the
\* correlation matcher returns none as a normal outcome: the call returns, its
\* result is none, and no exception of cv2.matchTemplate is seen.
C11_OversizeTemplateIsNoMatch ==
    (pc # "template" /\ TemplateLarger(shape)) =>
        /\ pc = "returned"
        /\ result = Nothing
        /\ error = "none"
        /\ \A i \in 1..Len(trace) : ~trace[i].raised

(***************************************************************************)
(* _match_multi_scale called on its own: find_template(method="multi_scale")*)
(***************************************************************************)
MultiScaleInit ==
    /\ CacheOff
    /\ TextOff
    /\ method = "multi_scale"
    /\ multi_scale = TRUE
    /\ confidence \in CallerThresholds
    /\ template_ok = TRUE
    /\ shape \in Shapes
    /\ corr \in {Some(peaks) : peaks \in ScalePeaks(shape)}
    /\ pc = "multi_scale"
    /\ trace = <<>>
    /\ result = Nothing
    /\ error = "none"

\* find_template, lines 95-96: return self._match_multi_scale(screenshot, template, confidence)
FindTemplateMultiScale ==
    /\ pc = "multi_scale"
    /\ \E peaks \in corr :
          LET run == MultiScaleLoop(shape, peaks, confidence, 1, Nothing, 0, <<>>)
              res == run.best_result
          IN  /\ trace' = Append(trace, [stage |-> 1, matcher |-> "_match_multi_scale",
                                         threshold |-> confidence, res |-> res,
                                         raised |-> FALSE, passes |-> run.passes])
              /\ pc' = "returned"
              /\ result' = res
    /\ UNCHANGED <<error, confidence, template_ok, shape, corr, cacheVars, th, textVars, callVars>>

MultiScaleNext == FindTemplateMultiScale

SpecMultiScale == MultiScaleInit /\ [][MultiScaleNext]_vars

\* The scale factors that are tried on the shape: the scaled template is at
\* least 10 pixels each way and not larger than the frame.  In tenths.
TriedFactors(sh) ==
    {f \in 5..20 :
        /\ (sh.template_w * f) \div 10 >= 10 /\ (sh.template_h * f) \div 10 >= 10
        /\ (sh.template_w * f) \div 10 <= sh.frame_w
        /\ (sh.template_h * f) \div 10 <= sh.frame_h}

\* "multi_scale_<f>x" with one decimal, for the factor f in tenths.
ScaleTag(f) ==
    <<"multi_scale_",
      CASE f = 5 -> "0.5x" [] f = 6 -> "0.6x" [] f = 7 -> "0.7x" [] f = 8 -> "0.8x"
        [] f = 9 -> "0.9x" [] f = 10 -> "1.0x" [] f = 11 -> "1.1x" [] f = 12 -> "1.2x"
        [] f = 13 -> "1.3x" [] f = 14 -> "1.4x" [] f = 15 -> "1.5x" [] f = 16 -> "1.6x"
        [] f = 17 -> "1.7x" [] f = 18 -> "1.8x" [] f = 19 -> "1.9x" [] OTHER -> "2.0x">>

\* C12: the multi-scale matcher returns the result of an attempted scale whose
\* confidence is the highest among the attempted scales that meet the
\* threshold, tagged with that scale factor; it returns none when no attempted
\* scale meets the threshold, which includes every scale being skipped.
C12_BestAttemptedScale ==
    pc = "returned" =>
        \A peaks \in corr :
            LET meets == {f \in TriedFactors(shape) : peaks[f - 4].val >= confidence}
            IN  /\ meets = {} => result = Nothing
                /\ meets # {} =>
                      \E r \in result : \E f \in meets :
                          /\ \A g \in meets : peaks[g - 4].val <= peaks[f - 4].val
                          /\ r.confidence = peaks[f - 4].val
                          /\ <<r.x, r.y>> = peaks[f - 4].loc
                          /\ r.width = (shape.template_w * f) \div 10
                          /\ r.height = (shape.template_h * f) \div 10
                          /\ r.method = ScaleTag(f)

\* The resized template at factor f (in tenths) is at least 10 pixels each way
\* and not larger than the frame.
Fits(sh, f) == f \in TriedFactors(sh)

\* C22: the matcher makes one pass per factor 0.5, 0.6, ..., 2.0; it runs the
\* correlation at a factor exactly when the resized template is at least 10
\* pixels in both dimensions and exceeds the frame in neither; a pass that
\* skips its factor leaves the best result as the pass before left it, and
\* the returned result carries the tag of a factor that was not skipped.
C22_ScaleAttemptedIffFits ==
    pc = "returned" =>
        \A k \in 1..Len(trace) :
            LET passes == trace[k].passes
            IN  /\ Len(passes) = 16
                /\ \A i \in 1..Len(passes) :
                      LET before == IF i = 1 THEN Nothing ELSE passes[i - 1].best_result
                      IN  /\ passes[i].scale = 4 + i
                          /\ passes[i].matched <=> Fits(shape, 4 + i)
                          /\ ~passes[i].matched => passes[i].best_result = before
                /\ \A r \in result :
                      \E i \in 1..Len(passes) :
                          passes[i].matched /\ r.method = ScaleTag(4 + i)

\* A 12x12 template in a 13x13 frame: 0.5 is skipped as too small, a factor
\* was matched and gave the best result, and the factor after it is skipped
\* as too large with that best result in hand.
C22_Witness ==
    /\ pc = "returned"
    /\ result # Nothing
    /\ shape.template_w = 12
    /\ \E k \in 1..Len(trace) :
          LET passes == trace[k].passes
          IN  /\ ~passes[1].matched
              /\ \E i \in 2..Len(passes) :
                    /\ passes[i - 1].matched
                    /\ passes[i - 1].best_result # Nothing
                    /\ ~passes[i].matched
                    /\ (shape.template_w * passes[i].scale) \div 10 > shape.frame_w

(***************************************************************************)
(* _match_features called on its own: find_template(method="feature")      *)
(***************************************************************************)
FeatureInit ==
    /\ CacheOff
    /\ TextOff
    /\ method = "feature"
    /\ multi_scale = TRUE
    /\ confidence \in CallerThresholds
    /\ template_ok = TRUE
    /\ shape \in Shapes
    /\ corr \in {Some(feat) : feat \in FeatureInputs}
    /\ pc = "feature"
    /\ trace = <<>>
    /\ result = Nothing
    /\ error = "none"

\* find_template, lines 92-93: return self._match_features(screenshot, template, confidence)
FindTemplateFeature ==
    /\ pc = "feature"
    /\ \E feat \in corr :
          LET run == FeatureRun(shape, feat, confidence)
          IN  /\ trace' = Append(trace, [stage |-> 1, matcher |-> "_match_features",
                                         threshold |-> confidence, res |-> run.res,
                                         raised |-> FALSE, knnMatch |-> run.knnMatch])
              /\ pc' = "returned"
              /\ result' = run.res
    /\ UNCHANGED <<error, confidence, template_ok, shape, corr, cacheVars, th, textVars,
                   callVars>>

FeatureNext == FindTemplateFeature

SpecFeature == FeatureInit /\ [][FeatureNext]_vars

\* The image gave fewer than 10 descriptors (none at all included).
TooFewDescriptors(des) == des = Nothing \/ \E n \in des : n < 10

\* C23: when the template or the frame gives fewer than 10 descriptors, the
\* feature matcher returns none and has not run the descriptor matching
\* (knnMatch).
C23_TooFewDescriptorsIsNone ==
    pc = "returned" =>
        \A feat \in corr :
            (TooFewDescriptors(feat.des1) \/ TooFewDescriptors(feat.des2)) =>
                /\ result = Nothing
                /\ \A i \in 1..Len(trace) : ~trace[i].knnMatch

(***************************************************************************)
(* _match_with_preprocessing called on its own                             *)
(***************************************************************************)
\* The thresholds the cascade passes at line 337: confidence * 0.7.
PreprocessingThresholds == {StageThreshold(4, c) : c \in CallerThresholds}

\* _match_with_preprocessing(screenshot, template, confidence) is called; corr
\* holds the TM_CCOEFF_NORMED peak of the untouched pair and of each
\* transformed pair.
PreprocessingInit ==
    /\ CacheOff
    /\ TextOff
    /\ CallOff
    /\ confidence \in PreprocessingThresholds
    /\ template_ok = TRUE
    /\ shape \in Shapes
    /\ corr \in {Some([original |-> [val |-> v,
                                     loc |-> Corner(1, shape.template_w,
                                                    shape.template_h, shape)],
                       peaks |-> peaks]) :
                    v \in Scores, peaks \in PreprocessedPeaks(shape)}
    /\ pc = "preprocessing"
    /\ trace = <<>>
    /\ result = Nothing
    /\ error = "none"

\* _match_with_preprocessing, lines 350-397
MatchWithPreprocessing ==
    /\ pc = "preprocessing"
    /\ \E inp \in corr :
          LET run == PreprocessingLoop(shape, inp.original, inp.peaks, confidence,
                                       1, Nothing, 0, <<>>)
          IN  /\ trace' = Append(trace, [stage |-> 1,
                                         matcher |-> "_match_with_preprocessing",
                                         threshold |-> confidence,
                                         res |-> run.best_result,
                                         raised |-> FALSE, passes |-> run.passes])
              /\ pc' = "returned"
              /\ result' = run.best_result
    /\ UNCHANGED <<error, confidence, template_ok, shape, corr, cacheVars, th, textVars,
                   callVars>>

PreprocessingNext == MatchWithPreprocessing

SpecPreprocessing == PreprocessingInit /\ [][PreprocessingNext]_vars

\* The transforms in the order the specification gives them, by the names
\* the code tags results with.
TransformOrder == <<"original", "blur", "threshold", "edges", "morphology">>

\* The confidence transform i reached (the peak of its correlation surface).
TransformConfidence(inp, i) == IF i = 1 THEN inp.original.val ELSE inp.peaks[i].val

\* C24: the preprocessing matcher makes one pass per transform in the order
\* identity, blur, threshold, edges, morphological close; a pass that fails
\* changes nothing and the passes after it are still made; the call returns
\* none when no transform that worked meets the threshold, and otherwise the
\* place and confidence of a transform with the highest confidence among those
\* that meet it, tagged "preprocessed_" and that transform's name.
C24_BestTransformAboveThreshold ==
    pc = "returned" =>
        \A inp \in corr : \A k \in 1..Len(trace) :
            LET passes == trace[k].passes
                worked == {i \in 1..5 : ~passes[i].failed}
                meets == {i \in worked : TransformConfidence(inp, i) >= confidence}
            IN  /\ [i \in 1..Len(passes) |-> passes[i].name] = TransformOrder
                /\ \A i \in 1..5 :
                      passes[i].failed =>
                          passes[i].best_result =
                              IF i = 1 THEN Nothing ELSE passes[i - 1].best_result
                /\ meets = {} => result = Nothing
                /\ meets # {} =>
                      \E r \in result : \E i \in meets :
                          /\ \A j \in meets :
                                TransformConfidence(inp, j) <= TransformConfidence(inp, i)
                          /\ r.confidence = TransformConfidence(inp, i)
                          /\ r.method = <<"preprocessed_", TransformOrder[i]>>

(***************************************************************************)
(* TemplateMatcher.find_text                                               *)
(*                                                                         *)
(* A string is a sequence of characters.  Similarities and OCR confidences *)
(* are in thousandths, rounded down.                                       *)
(***************************************************************************)
\* The longest token list pytesseract gives here.
MaxTokens == 2

\* "log", "Logs"
Targets == { <<"l", "o", "g">>, <<"L", "o", "g", "s">> }

\* "Login", "lo", " Log ", "lags", "xx", " " and the empty text
TokenTexts ==
    { <<"L", "o", "g", "i", "n">>, <<"l", "o">>, <<" ", "L", "o", "g", " ">>,
      <<"l", "a", "g", "s">>, <<"x", "x">>, <<" ">>, <<>> }

\* data['conf'], in percent
TokenConfs == {50, 90}

\* The OCR thresholds (0.0 and the default 0.8) and similarity thresholds.
OcrThresholds == {0, 800}

FuzzyThresholds == {0, 600, 1000}

\* The frame of a text resolution and the boxes of its tokens, by position.
TextFrame == [template_w |-> 0, template_h |-> 0, frame_w |-> 13, frame_h |-> 13]

TokenLists ==
    UNION { { [i \in 1..n |-> [text |-> ts[i], conf |-> cs[i], left |-> 4 * (i - 1),
                               top |-> i, width |-> 4, height |-> 2]] :
              ts \in [1..n -> TokenTexts], cs \in [1..n -> TokenConfs] } :
            n \in 0..MaxTokens }

\* str.lower() on the characters used
Lower(c) == CASE c = "L" -> "l" [] OTHER -> c

StrLower(str) == [i \in 1..Len(str) |-> Lower(str[i])]

\* str.strip()
RECURSIVE Strip(_)
Strip(str) ==
    IF str = <<>> THEN str
    ELSE IF Head(str) = " " THEN Strip(Tail(str))
    ELSE IF str[Len(str)] = " " THEN Strip(SubSeq(str, 1, Len(str) - 1))
    ELSE str

\* a in b
IsSubstring(a, b) ==
    \E i \in 0..(Len(b) - Len(a)) : SubSeq(b, i + 1, i + Len(a)) = a

\* SequenceMatcher.find_longest_match: a longest common block, the earliest
\* in a and then the earliest in b.
LongestMatch(a, b) ==
    LET blocks == {blk \in (1..Len(a)) \X (1..Len(b)) \X (1..Len(a)) :
                      /\ blk[1] + blk[3] - 1 <= Len(a)
                      /\ blk[2] + blk[3] - 1 <= Len(b)
                      /\ SubSeq(a, blk[1], blk[1] + blk[3] - 1)
                           = SubSeq(b, blk[2], blk[2] + blk[3] - 1)}
    IN  IF blocks = {} THEN <<1, 1, 0>>
        ELSE CHOOSE blk \in blocks :
                \A other \in blocks :
                    \/ other[3] < blk[3]
                    \/ other[3] = blk[3] /\ other[1] > blk[1]
                    \/ other[3] = blk[3] /\ other[1] = blk[1] /\ other[2] >= blk[2]

\* The characters in SequenceMatcher.get_matching_blocks.
RECURSIVE MatchingChars(_, _)
MatchingChars(a, b) ==
    LET blk == LongestMatch(a, b)
    IN  IF blk[3] = 0 THEN 0
        ELSE blk[3]
             + MatchingChars(SubSeq(a, 1, blk[1] - 1), SubSeq(b, 1, blk[2] - 1))
             + MatchingChars(SubSeq(a, blk[1] + blk[3], Len(a)),
                             SubSeq(b, blk[2] + blk[3], Len(b)))

\* difflib.SequenceMatcher(None, a, b).ratio(): 2.0 * matches / length, or 1.0
Ratio(a, b) ==
    IF Len(a) + Len(b) = 0 THEN One
    ELSE (2 * MatchingChars(a, b) * One) \div (Len(a) + Len(b))

\* Variant: the token inside the target is tested before the target inside the token.
Similarity_TokenFirst(target_lower, text_clean) ==
    IF IsSubstring(text_clean, target_lower) THEN 950
    ELSE IF IsSubstring(target_lower, text_clean) THEN One
    ELSE Ratio(target_lower, text_clean)

\* Variant: either substring case gives 0.95.
Similarity_SubstringFlat(target_lower, text_clean) ==
    IF IsSubstring(target_lower, text_clean) \/ IsSubstring(text_clean, target_lower)
    THEN 950
    ELSE Ratio(target_lower, text_clean)

\* lines 441-448
Similarity(target_lower, text_clean) ==
    IF IsSubstring(target_lower, text_clean) THEN One
    ELSE IF IsSubstring(text_clean, target_lower) THEN 950
    ELSE Ratio(target_lower, text_clean)

\* float(data['conf'][i]) / 100.0
OcrConfidence(token) == token.conf * 10

\* Lines 431-432 and 438-439: the token reaches the similarity computation.
Compared(token, conf) ==
    /\ ~(token.text = <<>> \/ Strip(token.text) = <<>>)
    /\ ~(OcrConfidence(token) < conf)

\* Variant: a token that equals the best similarity replaces the stored match.
Better_OrEqual(similarity, fuzzy, best_similarity) ==
    similarity >= fuzzy /\ similarity >= best_similarity

\* line 451: similarity >= fuzzy_threshold and similarity > best_similarity
Better(similarity, fuzzy, best_similarity) ==
    similarity >= fuzzy /\ similarity > best_similarity

\* The loop of lines 430-458; best_match is none or the stored dict.
RECURSIVE FindTextLoop(_, _, _, _, _, _, _)
FindTextLoop(d, target_lower, conf, fuzzy, i, best_match, best_similarity) ==
    IF i > Len(d)
    THEN best_match
    ELSE IF ~Compared(d[i], conf)
    THEN FindTextLoop(d, target_lower, conf, fuzzy, i + 1, best_match, best_similarity)
    ELSE LET text_clean == StrLower(Strip(d[i].text))
             ocr_confidence == OcrConfidence(d[i])
             similarity == Similarity(target_lower, text_clean)
         IN  IF Better(similarity, fuzzy, best_similarity)
             THEN FindTextLoop(d, target_lower, conf, fuzzy, i + 1,
                      Some([index |-> i, similarity |-> similarity,
                            ocr_confidence |-> ocr_confidence, text |-> d[i].text]),
                      similarity)
             ELSE FindTextLoop(d, target_lower, conf, fuzzy, i + 1,
                               best_match, best_similarity)

\* f"{similarity:.2f}"
Fmt2(similarity) ==
    LET hundredths == (similarity + 5) \div 10
    IN  ToString(hundredths \div 100) \o "."
        \o ToString((hundredths % 100) \div 10) \o ToString(hundredths % 10)

\* Variant: the similarity alone as the confidence.
FinalConfidence_SimilarityOnly(similarity, ocr_confidence) == similarity

\* line 469: similarity * 0.7 + ocr_confidence * 0.3
FinalConfidence(similarity, ocr_confidence) ==
    (similarity * 7 + ocr_confidence * 3) \div 10

\* lines 461-476
TextResult(d, best_match) ==
    { MatchResult(d[m.index].left, d[m.index].top, d[m.index].width, d[m.index].height,
                  FinalConfidence(m.similarity, m.ocr_confidence),
                  d[m.index].left + d[m.index].width \div 2,
                  d[m.index].top + d[m.index].height \div 2,
                  <<"ocr_fuzzy(", Fmt2(m.similarity), ")">>) : m \in best_match }

\* find_text: an ImportError or any other exception is printed and None returned.
find_text(state, d, target, conf, fuzzy) ==
    IF state # "ok"
    THEN Nothing
    ELSE TextResult(d, FindTextLoop(d, StrLower(Strip(target)), conf, fuzzy, 1, Nothing, 0))

\* The tokens that reach the similarity computation, with what it gives.
TextScan(d, target, conf) ==
    LET RECURSIVE scan(_)
        scan(i) ==
            IF i > Len(d) THEN <<>>
            ELSE IF ~Compared(d[i], conf) THEN scan(i + 1)
            ELSE <<[index |-> i,
                    similarity |-> Similarity(StrLower(Strip(target)),
                                              StrLower(Strip(d[i].text)))]>>
                 \o scan(i + 1)
    IN  scan(1)

TextInit ==
    /\ CacheOff
    /\ CallOff
    /\ confidence \in OcrThresholds
    /\ template_ok = TRUE
    /\ shape = TextFrame
    /\ corr = Nothing
    /\ pc = "text"
    /\ trace = <<>>
    /\ result = Nothing
    /\ error = "none"
    /\ target_text \in Targets
    /\ fuzzy_threshold \in FuzzyThresholds
    /\ ocr \in {"ok", "ImportError", "TesseractError"}
    /\ data \in IF ocr = "ok" THEN TokenLists ELSE {<<>>}

\* One call of find_text (lines 399-483).
FindText ==
    /\ pc = "text"
    /\ pc' = "returned"
    /\ result' = find_text(ocr, data, target_text, confidence, fuzzy_threshold)
    /\ trace' = IF ocr = "ok" THEN TextScan(data, target_text, confidence) ELSE <<>>
    /\ UNCHANGED <<error, confidence, template_ok, shape, corr, cacheVars, th, textVars, callVars>>

TextNext == FindText

SpecText == TextInit /\ [][TextNext]_vars

(***************************************************************************)
(* Claims about text resolution (SpecText)                                 *)
(***************************************************************************)
\* The similarity computed for the token at position i.
SimilarityOf(i) ==
    LET e == CHOOSE e \in {trace[k] : k \in 1..Len(trace)} : e.index = i
    IN  e.similarity

\* The positions of the tokens a similarity was computed for.
ConsideredTokens == {trace[k].index : k \in 1..Len(trace)}

\* C13: only tokens whose OCR confidence is at least the OCR threshold are
\* considered; none is returned exactly when no considered token has a
\* similarity at or above the fuzzy threshold; otherwise the returned token has
\* the highest similarity among those, and is the first in scan order of the
\* tokens that share it.
C13_BestTokenAboveThresholds ==
    (pc = "returned" /\ ocr = "ok") =>
        LET qualifying == {i \in ConsideredTokens : SimilarityOf(i) >= fuzzy_threshold}
        IN  /\ \A i \in ConsideredTokens : data[i].conf * 10 >= confidence
            /\ result = Nothing <=> qualifying = {}
            /\ \A r \in result :
                  \E i \in qualifying :
                      /\ \A j \in qualifying : SimilarityOf(j) <= SimilarityOf(i)
                      /\ \A j \in qualifying : SimilarityOf(j) = SimilarityOf(i) => i <= j
                      /\ <<r.x, r.y, r.width, r.height>>
                           = <<data[i].left, data[i].top, data[i].width, data[i].height>>

\* C14: a token that is compared gets the similarity 1.0 if the target (lower
\* case, stripped) is inside the token text, otherwise 0.95 if the token text
\* is inside the target, otherwise the ratio of SequenceMatcher; the first
\* case that applies wins.
C14_SimilarityCases ==
    pc = "returned" =>
        \A i \in ConsideredTokens :
            LET target == StrLower(Strip(target_text))
                token == StrLower(Strip(data[i].text))
                inToken == \E k \in 0..Len(token) :
                              k + Len(target) <= Len(token)
                              /\ \A n \in 1..Len(target) : token[k + n] = target[n]
                inTarget == \E k \in 0..Len(target) :
                               k + Len(token) <= Len(target)
                               /\ \A n \in 1..Len(token) : target[k + n] = token[n]
            IN  /\ data[i].conf * 10 >= confidence
                /\ inToken => SimilarityOf(i) = 1000
                /\ (~inToken /\ inTarget) => SimilarityOf(i) = 950
                /\ (~inToken /\ ~inTarget) =>
                       SimilarityOf(i) = (2000 * MatchingChars(target, token))
                                           \div (Len(target) + Len(token))

\* A scan with a token equal to the target (both substring tests are true, the
\* first wins), a token inside the target, or a token that needs the ratio.
C14_Witness ==
    /\ pc = "returned"
    /\ target_text = <<"l", "o", "g">>
    /\ Len(data) = 2 /\ Len(trace) = 2
    /\ data[1].text = <<" ", "L", "o", "g", " ">> /\ trace[1].similarity = 1000
    /\ \/ data[2].text = <<"l", "o">> /\ trace[2].similarity = 950
       \/ data[2].text = <<"l", "a", "g", "s">> /\ trace[2].similarity = 571

\* The single token "Login" with OCR confidence 0.9, looked up with "log".
LoginExample ==
    /\ pc = "returned" /\ ocr = "ok"
    /\ target_text = <<"l", "o", "g">>
    /\ Len(data) = 1
    /\ data[1].text = <<"L", "o", "g", "i", "n">>
    /\ data[1].conf = 90

\* C15, as stated: on the token ("Login", 0.9) and the target "log" the
\* similarity is 0.95 and the result's confidence is 0.7*0.95 + 0.3*0.9 = 0.935.
C15_LoginExampleAsStated ==
    LoginExample =>
        /\ \A i \in ConsideredTokens : SimilarityOf(i) = 950
        /\ \E r \in result : r.confidence = 935

\* C15, amended: on the token ("Login", 0.9) and the target "log" the target is
\* inside the token, so the similarity is 1.0, and a result is returned whose
\* confidence is 0.7*1.0 + 0.3*0.9 = 0.97.
C15_LoginExample ==
    LoginExample =>
        /\ ConsideredTokens = {1}
        /\ SimilarityOf(1) = 1000
        /\ \E r \in result : r.confidence = 970
        /\ \A r \in result : r.confidence = 970

C15_Witness ==
    /\ LoginExample
    /\ confidence = 800 /\ fuzzy_threshold = 600
    /\ result # Nothing

\* The token the scan selects: the first of those with the highest similarity
\* at or above the fuzzy threshold.
SelectedTokens ==
    {i \in ConsideredTokens :
        /\ SimilarityOf(i) >= fuzzy_threshold
        /\ \A j \in ConsideredTokens :
              /\ SimilarityOf(j) <= SimilarityOf(i)
              /\ SimilarityOf(j) = SimilarityOf(i) => i <= j}

\* C16: the confidence of a returned result is 0.7 times the similarity of the
\* selected token plus 0.3 times its OCR confidence (in thousandths, rounded
\* down), and the result's box is that token's box.
C16_BlendedConfidenceAndBox ==
    pc = "returned" =>
        \A r \in result :
            \E i \in SelectedTokens :
                /\ r.confidence = (7 * SimilarityOf(i) + 3 * (data[i].conf * 10)) \div 10
                /\ r.x = data[i].left /\ r.y = data[i].top
                /\ r.width = data[i].width /\ r.height = data[i].height

\* The second token is selected, by a ratio below 1, with an OCR confidence
\* that differs from the similarity.
C16_Witness ==
    /\ pc = "returned"
    /\ SelectedTokens = {2}
    /\ SimilarityOf(2) = 750 /\ data[2].conf = 90
    /\ \E r \in result : r.confidence = 795 /\ r.x = 4

\* What the caller of find_text sees of a search that ran and found no token.
NoMatchOutcome == <<Nothing, "none">>

\* C17: when pytesseract is missing or fails, what find_text reports to its
\* caller differs from the outcome of a search that ran and found no token.
C17_OcrFailureDistinctFromNoMatch ==
    (pc = "returned" /\ ocr # "ok") => <<result, error>> # NoMatchOutcome

(***************************************************************************)
(* Claims about every returned MatchResult                                 *)
(***************************************************************************)
\* The result has a positive size, lies inside the frame and has a confidence
\* between 0 and 1.
WellFormed(r, sh) ==
    /\ r.width > 0 /\ r.height > 0
    /\ r.x >= 0 /\ r.y >= 0
    /\ r.x + r.width <= sh.frame_w
    /\ r.y + r.height <= sh.frame_h
    /\ r.confidence >= 0 /\ r.confidence <= 1000

\* C19: every MatchResult a matcher returns (to the cascade, and the cascade
\* to its caller) has width > 0, height > 0, a box inside the frame and a
\* confidence within [0, 1].
C19_ResultsWellFormed ==
    /\ \A r \in result : WellFormed(r, shape)
    /\ \A i \in 1..Len(trace) : \A r \in trace[i].res : WellFormed(r, shape)

(***************************************************************************)
(* find_template and find_template_with_fallbacks as functions of what cv2 *)
(* computes on the frame and the template                                  *)
(***************************************************************************)
\* How a call ends: with a result (or none), or with an exception.
Returned(res) == [res |-> res, exc |-> "none"]

Raised(exc) == [res |-> Nothing, exc |-> exc]

\* _match_template, with the exception of cv2.matchTemplate
MatchTemplateCall(sh, surf, thr) ==
    IF MatchTemplateRaises(sh.template_w, sh.template_h, sh.frame_w, sh.frame_h)
    THEN Raised("cv2.error")
    ELSE Returned(_match_template(sh, surf, thr))

\* find_template, lines 57-99
find_template(m, multi, sh, peaks, feat, surf, thr) ==
    CASE m = "auto" ->
            LET first == IF multi THEN _match_multi_scale(sh, peaks, thr)
                         ELSE Nothing
                second == _match_features(sh, feat, thr)
            IN  IF first # Nothing THEN Returned(first)
                ELSE IF second # Nothing THEN Returned(second)
                ELSE MatchTemplateCall(sh, surf, thr)
      [] m = "template" -> MatchTemplateCall(sh, surf, thr)
      [] m = "feature" -> Returned(_match_features(sh, feat, thr))
      [] m = "multi_scale" -> Returned(_match_multi_scale(sh, peaks, thr))
      [] OTHER -> Raised("ValueError")

\* find_template_with_fallbacks, lines 315-348, run to its end
find_template_with_fallbacks(sh, peaks, feat, surf, pre, c) ==
    LET r1 == _match_multi_scale(sh, peaks, StageThreshold(1, c))
        r2 == _match_features(sh, feat, StageThreshold(2, c))
        r3 == _match_template(sh, surf, StageThreshold(3, c))
        r4 == _match_with_preprocessing(sh, surf[1], pre, StageThreshold(4, c))
        r5 == _match_template(sh, surf, StageThreshold(5, c))
    IN  IF Accepts(1, r1, StageThreshold(1, c)) THEN Returned(r1)
        ELSE IF Accepts(2, r2, StageThreshold(2, c)) THEN Returned(r2)
        ELSE IF MatchTemplateRaises(sh.template_w, sh.template_h,
                                    sh.frame_w, sh.frame_h)
        THEN Raised("cv2.error")
        ELSE IF Accepts(3, r3, StageThreshold(3, c)) THEN Returned(r3)
        ELSE IF Accepts(4, r4, StageThreshold(4, c)) THEN Returned(r4)
        ELSE IF Accepts(5, r5, StageThreshold(5, c)) THEN Returned(Annotate(r5))
        ELSE Returned(Nothing)

(***************************************************************************)
(* TemplateMatcher.find_template called with a strategy selection          *)
(***************************************************************************)
\* The method arguments drawn: the four the code knows and one it does not.
Methods == {"auto", "template", "feature", "multi_scale", "correlation-only"}

KnownMethod(m) == m \in {"auto", "template", "feature", "multi_scale"}

\* Mutant: auto runs the multi-scale matcher whatever the switch says.
Selected_SwitchIgnored(m, multi) ==
    CASE m = "auto" -> <<"_match_multi_scale", "_match_features", "_match_template">>
      [] m = "template" -> <<"_match_template">>
      [] m = "feature" -> <<"_match_features">>
      [] m = "multi_scale" -> <<"_match_multi_scale">>
      [] OTHER -> <<>>

\* The matchers a selection calls, in the order of lines 74-96.
Selected(m, multi) ==
    CASE m = "auto" -> IF multi
                       THEN <<"_match_multi_scale", "_match_features", "_match_template">>
                       ELSE <<"_match_features", "_match_template">>
      [] m = "template" -> <<"_match_template">>
      [] m = "feature" -> <<"_match_features">>
      [] m = "multi_scale" -> <<"_match_multi_scale">>
      [] OTHER -> <<>>

\* How a call of the matcher can end on a frame and template of this shape.
MatcherOutcomes(matcher, sh, thr) ==
    CASE matcher = "_match_multi_scale" ->
            {Returned(_match_multi_scale(sh, peaks, thr)) : peaks \in ScalePeaks(sh)}
      [] matcher = "_match_features" ->
            {Returned(_match_features(sh, feat, thr)) : feat \in FeatureInputs}
      [] OTHER ->
            {MatchTemplateCall(sh, surf, thr) : surf \in Surfaces(sh)}

\* The runs of the matchers order[i..]: every matcher but the last is followed
\* by "if result: return result", the last is returned as it is; an exception
\* leaves find_template at once.
RECURSIVE RunsFrom(_, _, _, _, _)
RunsFrom(order, i, sh, thr, tr) ==
    UNION { LET entry == [stage |-> i, matcher |-> order[i], threshold |-> thr,
                          res |-> o.res, raised |-> o.exc # "none"]
            IN  IF i = Len(order) \/ o.res # Nothing \/ o.exc # "none"
                THEN {[trace |-> Append(tr, entry), out |-> o]}
                ELSE RunsFrom(order, i + 1, sh, thr, Append(tr, entry)) :
            o \in MatcherOutcomes(order[i], sh, thr) }

\* find_template(screenshot, template, confidence, method, multi_scale) is called.
FindTemplateInit ==
    /\ CacheOff
    /\ TextOff
    /\ method \in Methods
    /\ multi_scale \in BOOLEAN
    /\ confidence \in CallerThresholds
    /\ template_ok = TRUE
    /\ shape \in Shapes
    /\ corr = Nothing
    /\ pc = "find_template"
    /\ trace = <<>>
    /\ result = Nothing
    /\ error = "none"

\* find_template, lines 74-99
FindTemplate ==
    /\ pc = "find_template"
    /\ IF ~KnownMethod(method)
       THEN /\ pc' = "raised"
            /\ error' = "ValueError"
            /\ UNCHANGED <<trace, result>>
       ELSE \E run \in RunsFrom(Selected(method, multi_scale), 1, shape, confidence, <<>>) :
               /\ trace' = run.trace
               /\ result' = run.out.res
               /\ error' = run.out.exc
               /\ pc' = IF run.out.exc = "none" THEN "returned" ELSE "raised"
    /\ UNCHANGED <<confidence, template_ok, shape, corr, cacheVars, th, textVars, callVars>>

FindTemplateNext == FindTemplate

SpecFindTemplate == FindTemplateInit /\ [][FindTemplateNext]_vars

(***************************************************************************)
(* Claims about the strategy selection (SpecFindTemplate)                  *)
(***************************************************************************)
\* The matchers called so far, in call order.
CalledMatchers == [i \in 1..Len(trace) |-> trace[i].matcher]

\* C21: once find_template has ended, the matchers that ran are those the
\* selection permits: "template", "feature" and "multi_scale" run only their
\* own matcher and return what it returned; "auto" runs multi-scale (only
\* when multi_scale is on), then feature, then correlation, each at the
\* caller's threshold, stops at the first result that is not none and returns
\* it; any other method name ends in ValueError with no matcher run and
\* nothing returned.
C21_StrategySelectsMatchers ==
    pc # "find_template" =>
        CASE method = "template" ->
                /\ CalledMatchers = <<"_match_template">>
                /\ pc = "returned" => result = trace[1].res
          [] method = "feature" ->
                /\ CalledMatchers = <<"_match_features">>
                /\ pc = "returned" /\ result = trace[1].res
          [] method = "multi_scale" ->
                /\ CalledMatchers = <<"_match_multi_scale">>
                /\ pc = "returned" /\ result = trace[1].res
          [] method = "auto" ->
                LET order == IF multi_scale
                             THEN <<"_match_multi_scale", "_match_features",
                                    "_match_template">>
                             ELSE <<"_match_features", "_match_template">>
                    n == Len(trace)
                IN  /\ n \in 1..Len(order)
                    /\ CalledMatchers = SubSeq(order, 1, n)
                    /\ \A i \in 1..n : trace[i].threshold = confidence
                    /\ \A i \in 1..(n - 1) : trace[i].res = Nothing /\ ~trace[i].raised
                    /\ pc = "returned" =>
                          /\ result = trace[n].res
                          /\ result = Nothing => n = Len(order)
          [] OTHER ->
                /\ trace = <<>>
                /\ pc = "raised"
                /\ error = "ValueError"
                /\ result = Nothing

\* auto with multi-scale on: the multi-scale matcher gave none and the feature
\* matcher's result was returned without the correlation matcher being run.
C21_Witness ==
    /\ method = "auto"
    /\ multi_scale
    /\ pc = "returned"
    /\ Len(trace) = 2
    /\ result # Nothing
    /\ \A r \in result : r.method = <<"feature">>

(***************************************************************************)
(* A session: HumanMouse or AsyncHumanMouse with its VisionCache           *)
(***************************************************************************)
\* The lookups of one session that are followed.
MaxLookups == 2

\* The threshold AsyncHumanMouse._find_target_image passes (0.7).
AsyncConfidence == 700

\* The image file behind each path, with the frame it is looked for in.
TemplateShape(path) ==
    CASE path = "a.png" ->
            [template_w |-> 12, template_h |-> 12, frame_w |-> 13, frame_h |-> 13]
      [] path = "b.png" ->
            [template_w |-> 20, template_h |-> 30, frame_w |-> 25, frame_h |-> 20]
      [] OTHER ->
            [template_w |-> 4, template_h |-> 4, frame_w |-> 13, frame_h |-> 13]

\* How well the screen shows the template: not at all, weakly, clearly.
SceneScores == {0, 520, 900}

\* What cv2 computes on a screen that shows the template with the score v at
\* every scale and under every formula, and too few descriptors for SIFT.
Scene(sh, v) ==
    [shape |-> sh,
     absent |-> v = 0,
     peaks |-> [i \in AttemptedScales(sh) |-> [val |-> v, loc |-> <<0, 0>>]],
     feat |-> [raises |-> FALSE, des1 |-> Some(9), des2 |-> Some(40),
               good_matches |-> 9, homography |-> FALSE, inlier_ratio |-> 0,
               box |-> [x |-> 1, y |-> 0, width |-> 11, height |-> 12]],
     surf |-> <<[val |-> v, loc |-> <<0, 0>>], [val |-> v, loc |-> <<0, 0>>],
                [val |-> One - v, loc |-> <<0, 0>>]>>,
     pre |-> [i \in 2..Len(PreprocessingMethods) |->
                 [raises |-> FALSE, val |-> 0, loc |-> <<0, 0>>]]]

\* VisionCache.get_template on the session's cache, with its bookkeeping.
SessionGet(r, image_path, current_time) ==
    /\ cache' = r.cache
    /\ access_times' = r.access_times
    /\ clock' = current_time
    /\ loads' = IF r.loaded THEN loads + 1 ELSE loads
    /\ last' = [op |-> "get", key |-> image_path, ret |-> r.ret,
                evicted |-> r.evicted, err |-> r.err, path |-> r.path,
                loaded |-> r.loaded,
                age |-> IF image_path \in DictKeys(cache)
                        THEN Some(current_time - DictGet(access_times, image_path))
                        ELSE Nothing,
                prevHit |-> IF last.path = "hit" THEN last.key ELSE None,
                evictedAge |-> EvictedAge(access_times, r.evicted, current_time)]

\* The lookup ended: what its caller got, with what was true of its inputs
\* (the file can be decoded, the screen does not show the template) and how
\* the template was obtained ("unread", "cached", "loaded" or "failed").
LookupEnds(handler, image_path, decodable, template, scene, res, exc) ==
    /\ result' = res
    /\ error' = exc
    /\ trace' = Append(trace, [handler |-> handler, image_path |-> image_path,
                               decodable |-> decodable, template |-> template,
                               absent |-> scene.absent, outcome |-> <<res, exc>>])

\* How get_template came by what it returned.
TemplateSource(r) ==
    IF r.path = "hit" THEN "cached"
    ELSE IF r.ret # Nothing THEN "loaded" ELSE "failed"

\* HumanMouse and AsyncHumanMouse construct their VisionCache with the defaults;
\* the capacity and TTL are drawn small.
SessionInit ==
    /\ TextOff
    /\ CallOff
    /\ cache = <<>>
    /\ access_times = <<>>
    /\ max_size \in 1..MaxCapacity
    /\ ttl \in 1..MaxTime
    /\ clock = 0
    /\ loads = 0
    /\ last = NoCall
    /\ th = [t \in Threads |-> Idle]
    /\ confidence = AsyncConfidence
    /\ template_ok = TRUE
    /\ shape = TemplateShape("a.png")
    /\ corr = Nothing
    /\ pc \in {"HumanMouse", "AsyncHumanMouse"}
    /\ trace = <<>>
    /\ result = Nothing
    /\ error = "none"

\* HumanMouse._find_target_image (browsergeist.py 452-483).  _send_command
\* returns a CommandResult or raises; a CommandResult has no method get, so
\* line 459 raises AttributeError and the lines after it never run.
FindTargetImage ==
    /\ pc = "HumanMouse"
    /\ Len(trace) < MaxLookups
    /\ \E image_path \in ThreadPaths, decodable \in BOOLEAN, v \in SceneScores,
          daemon \in {"answers", "fails"} :
          LookupEnds("HumanMouse", image_path, decodable, "unread",
                     Scene(TemplateShape(image_path), v), Nothing,
                     IF daemon = "answers" THEN "AttributeError" ELSE "CommandError")
    /\ UNCHANGED <<cacheVars, th, textVars, callVars, confidence, template_ok, shape, corr, pc>>

\* AsyncHumanMouse._find_target_image (async_browsergeist.py 355-386): every
\* exception inside it leaves as VisionError.
AsyncFindTargetImage ==
    /\ pc = "AsyncHumanMouse"
    /\ Len(trace) < MaxLookups
    /\ \E image_path \in ThreadPaths, current_time \in clock..MaxTime,
          decodable \in BOOLEAN, v \in SceneScores,
          screenshot \in {"ok", "failed"}, monitors \in {"ok", "failed"} :
          LET r == get_template(cache, access_times, max_size, ttl, image_path,
                                current_time, decodable, loads + 1)
              sc == Scene(TemplateShape(image_path), v)
              match == find_template_with_fallbacks(sc.shape, sc.peaks, sc.feat,
                                                    sc.surf, sc.pre, AsyncConfidence)
              others == find_template("auto", TRUE, sc.shape, sc.peaks, sc.feat,
                                      sc.surf, AsyncConfidence)
              ends(res, exc) == LookupEnds("AsyncHumanMouse", image_path, decodable,
                                           TemplateSource(r), sc, res, exc)
          IN  /\ SessionGet(r, image_path, current_time)
              /\ IF r.ret = Nothing
                 THEN ends(Nothing, "VisionError: Could not load template")
                 ELSE IF screenshot = "failed"
                 THEN ends(Nothing, "VisionError: Failed to capture screenshot")
                 ELSE IF match.exc # "none"
                 THEN ends(Nothing, "VisionError: " \o match.exc)
                 ELSE IF match.res # Nothing
                 THEN ends(match.res, "none")
                 ELSE IF monitors = "ok" /\ others.exc = "none"
                 THEN ends(others.res, "none")
                 ELSE ends(Nothing, "none")
    /\ UNCHANGED <<max_size, ttl, th, textVars, callVars, confidence, template_ok, shape, corr, pc>>

\* The client reads a template through the session's vision_cache itself.
CacheLookup ==
    /\ pc \in {"HumanMouse", "AsyncHumanMouse"}
    /\ Len(trace) < MaxLookups
    /\ \E image_path \in ThreadPaths, current_time \in clock..MaxTime,
          decodable \in BOOLEAN :
          LET r == get_template(cache, access_times, max_size, ttl, image_path,
                                current_time, decodable, loads + 1)
          IN  /\ SessionGet(r, image_path, current_time)
              /\ trace' = Append(trace, [handler |-> "get_template",
                                         image_path |-> image_path,
                                         decodable |-> decodable,
                                         template |-> TemplateSource(r),
                                         absent |-> FALSE,
                                         outcome |-> <<r.ret, r.err>>])
    /\ UNCHANGED <<max_size, ttl, th, textVars, callVars, confidence, template_ok, shape, corr,
                   pc, result, error>>

\* HumanMouse.close as the class ends up defining it (browsergeist.py
\* 1158-1161; the definition at 245-258 is replaced by it), also run by
\* __exit__ (1166-1167): the socket is closed, nothing else.
CloseHumanMouse ==
    /\ pc = "HumanMouse"
    /\ pc' = "closed"
    /\ UNCHANGED <<cacheVars, th, textVars, callVars, confidence, template_ok, shape, corr,
                   trace, result, error>>

\* AsyncHumanMouse.close_session (async_browsergeist.py 197-206), also run by
\* __aexit__.
CloseSession ==
    /\ pc = "AsyncHumanMouse"
    /\ pc' = "closed"
    /\ cache' = <<>>
    /\ access_times' = <<>>
    /\ last' = [NoCall EXCEPT !.op = "clear"]
    /\ UNCHANGED <<max_size, ttl, clock, loads, th, textVars, callVars, confidence, template_ok,
                   shape, corr, trace, result, error>>

SessionNext ==
    \/ FindTargetImage
    \/ AsyncFindTargetImage
    \/ CacheLookup
    \/ CloseHumanMouse
    \/ CloseSession

SpecSession == SessionInit /\ [][SessionNext]_vars

(***************************************************************************)
(* Claims about a session (SpecSession)                                    *)
(***************************************************************************)
\* The lookups made through _find_target_image.
Resolutions == {i \in 1..Len(trace) : trace[i].handler # "get_template"}

\* C18: a resolution whose template file cannot be decoded (and is not served
\* from the cache) ends with an error, and what the caller gets then differs
\* from what the same handler gives for a template that can be decoded and is
\* not on the screen.
C18_LoadFailureDistinctFromNoMatch ==
    \A i \in Resolutions :
        (~trace[i].decodable /\ trace[i].template # "cached") =>
            /\ trace[i].outcome[2] # "none"
            /\ \A j \in Resolutions :
                  (trace[j].handler = trace[i].handler
                   /\ trace[j].decodable /\ trace[j].absent)
                  => trace[j].outcome # trace[i].outcome

\* C20: the cache of a session starts empty, and once the session is torn down
\* (HumanMouse.close or __exit__, AsyncHumanMouse.close_session or __aexit__)
\* it holds no entry, whatever lookups came before.
C20_CacheEmptyAfterTeardown ==
    /\ (trace = <<>> /\ pc # "closed") => (cache = <<>> /\ access_times = <<>>)
    /\ pc = "closed" => (cache = <<>> /\ access_times = <<>>)

====
